---- MODULE Spec2Model ----
(***************************************************************************)
(* Order placement of the poster-parlor server: OrdersService.createOrder  *)
(* (libs/orders) over the poster, order and user collections.              *)
(*                                                                         *)
(* createOrder is an async function: every `await` of a database call is   *)
(* a point where another request may run.  Each request is therefore a     *)
(* small process whose steps are the database calls of createOrder, in     *)
(* program order.                                                          *)
(*                                                                         *)
(* Money is a JavaScript number.  It is represented here in thousandths of *)
(* a currency unit (Unit = 1.000), fine enough to tell a difference below  *)
(* the 0.01 tolerance from one above it.                                   *)
(***************************************************************************)
EXTENDS Integers, Sequences, FiniteSets, TLC

\* ---------------------------------------------------------------- bounds
NReq == 2
MaxItems == 2
MaxQty == 2
MaxStock == 2
MaxFaults == 1
MaxSubtotal == 300
MaxFiles == 3
MaxPage == 4
MaxOrders == 7
MaxChecks == 4

\* ------------------------------------------------------------- constants
Unit == 1000
Tolerance == 10
baseShipping == 50 * Unit
freeShippingThreshold == 250 * Unit
remoteSurcharge == 150 * Unit
remoteStates == {"Jammu and Kashmir", "Arunachal Pradesh", "Ladakh"}
TaxPercent == 18
perItemShipping == 20 * Unit
MaxImagesPerReview == 5
MaxLimit == 50
MAX == 3

\* undefined / null: None for an identifier, Absent for a number, NoDoc for a document
None == "none"
Absent == -1
NoDoc == [absent |-> TRUE]
NoRequest == [absent |-> TRUE]

Reqs == 1..NReq
Products == {"A", "B"}
MissingId == "X"
BadId == "not-an-object-id"
Users == {"u1"}
GhostUser == "u9"

CatalogPrice(p) == IF p = "A" THEN 100 * Unit ELSE 120 * Unit

Abs(x) == IF x < 0 THEN -x ELSE x

isValidObjectId(id) == id # BadId

\* ------------------------------------------------------ pricing helpers
calculateShipping(subtotal, state) ==
    LET shipping == IF subtotal >= freeShippingThreshold THEN 0 ELSE baseShipping
        remoteCharge == IF state \in remoteStates THEN remoteSurcharge ELSE 0
    IN  shipping + remoteCharge

\* Math.round(subtotal * 0.18): nearest whole currency unit, halves up
calculateTax(subtotal) ==
    ((subtotal * TaxPercent + 50 * Unit) \div (100 * Unit)) * Unit

\* the second OrdersService of the file: shipping by the number of pieces ordered
calculateShippingLegacy(totalQuantity, state) ==
    LET remoteCharge == IF state \in remoteStates THEN remoteSurcharge ELSE 0
    IN  baseShipping + (totalQuantity - 1) * perItemShipping + remoteCharge

\* the second OrdersService of the file: subtotal * 0.18, not rounded (exact here for
\* every subtotal that is a whole number of currency units)
calculateTaxLegacy(subtotal) == (subtotal * TaxPercent) \div 100

RECURSIVE SumLines(_)
SumLines(items) ==
    IF items = <<>> THEN 0
    ELSE Head(items).price * Head(items).quantity + SumLines(Tail(items))

\* orderDetail.x ?? y, for the optional numeric fields
Coalesce(x, y) == IF x # Absent THEN x ELSE y

\* ------------------------------------------------------ request payloads
Item(id, q, pr) == [posterId |-> id, quantity |-> q, price |-> pr]

\* CreateOrderDto; an optional field the client left out is None
Dto(items, state, amount, method, userId, sc, ta, tp) ==
    [items |-> items, state |-> state, amount |-> amount, method |-> method,
     userId |-> userId, shippingCost |-> sc, taxAmount |-> ta, totalPrice |-> tp,
     status |-> None, isPaid |-> None]

\* what the documented formula gives for the catalog's prices
RECURSIVE CatalogSubtotal(_)
CatalogSubtotal(items) ==
    IF items = <<>> THEN 0
    ELSE (IF Head(items).posterId \in Products
          THEN CatalogPrice(Head(items).posterId) * Head(items).quantity ELSE 0)
         + CatalogSubtotal(Tail(items))

ServerTotal(items, state) ==
    LET sub == CatalogSubtotal(items)
    IN  sub + calculateShipping(sub, state) + calculateTax(sub)

\* the total a client arrives at when it fills in the optional pricing fields
ClientTotal(items, state, sc, ta, tp) ==
    LET sub == CatalogSubtotal(items)
    IN  Coalesce(tp, sub + Coalesce(sc, calculateShipping(sub, state))
                         + Coalesce(ta, calculateTax(sub)))

HonestItems == { Item(p, q, CatalogPrice(p)) : p \in Products, q \in 1..MaxQty }
\* a price inside the tolerance (+0.005) and one outside it (+0.020)
SkewedItems == { Item(p, q, CatalogPrice(p) + d) : p \in Products, q \in 1..MaxQty, d \in {5, 20} }

SeqsOver(first, rest) ==
    UNION { { <<f>> \o t : f \in first, t \in [1..n -> rest] } : n \in 0..(MaxItems - 1) }

HonestSeqs == SeqsOver(HonestItems, HonestItems)

\* requests that race for stock: honest carts, paid in full, by a guest or a known user
ConcPayloads ==
    { Dto(its, "Delhi", ServerTotal(its, "Delhi"), "COD", u, Absent, Absent, Absent) :
        its \in HonestSeqs, u \in {None, "u1"} }

\* requests that fill in the optional pricing fields, and pay what they like
OverridePayloads ==
    UNION { UNION { UNION { UNION {
      { Dto(its, st, am, "COD", None, sc, ta, tp) :
          am \in { ServerTotal(its, st), ServerTotal(its, st) + 5,
                   ServerTotal(its, st) - 6 * Unit,
                   ClientTotal(its, st, sc, ta, tp) } } :
        tp \in {Absent, Unit} } : ta \in {Absent, 0} } : sc \in {Absent, 0} } :
      its \in HonestSeqs, st \in {"Delhi", "Ladakh"} }

\* requests whose first item carries a price of the client's own
SkewedPayloads ==
    { Dto(its, st, ServerTotal(its, st) + d, "COD", None, Absent, Absent, Absent) :
        its \in SeqsOver(SkewedItems, HonestItems), st \in {"Delhi", "Ladakh"}, d \in {0, 5} }

PricingPayloads == OverridePayloads \cup SkewedPayloads

\* requests that vary the identifiers, the customer and the payment method
CustomerPayloads ==
    { Dto(<<Item(id, 1, CatalogPrice("A"))>>, "Delhi", ServerTotal(<<Item(id, 1, 0)>>, "Delhi"),
          m, u, Absent, Absent, Absent) :
        id \in {"A", MissingId, BadId}, m \in {"COD", "ONLINE"}, u \in {None, "u1", GhostUser} }

\* requests with an empty cart, paying the bare shipping fee
EmptyPayloads ==
    { Dto(<<>>, "Delhi", ServerTotal(<<>>, "Delhi"), "COD", u, Absent, Absent, Absent) :
        u \in {None, "u1"} }

\* requests that say themselves which status the new order has
StatusPayloads ==
    { [d EXCEPT !.status = s] : d \in CustomerPayloads, s \in {"PROCESSING", "DELIVERED"} }

\* the order of the worked example: two of poster A to Delhi, 286 paid
ScenarioOrder ==
    Dto(<<Item("A", 2, 100 * Unit)>>, "Delhi", 286 * Unit, "COD", None, Absent, Absent, Absent)

\* ------------------------------------------------------------------ state
VARIABLES
    posterModel,     \* poster collection: id -> [price, stock]
    orderModel,      \* order collection: the set of saved documents
    orderDetail,     \* per request: the payload it was called with
    pc,              \* per request: where createOrder stands
    idx,             \* per request: index of the item the current loop is at
    validatedItems,  \* per request: local validatedItems
    subtotal,        \* per request: local subtotal
    order,           \* per request: the document built for save(), or None
    error,           \* per request: the exception createOrder threw, or None
    faults,          \* storage failures the data store may still produce
    stockAtCall,     \* per request: the stock of every poster when it was called
    calc,            \* one evaluation of the pricing helpers: its inputs and results
    mediaStore,      \* Cloudinary: the public ids of the images it holds
    reviewModel,     \* review collection: the set of stored documents
    reviewCall,      \* the arguments of the ReviewService call, or NoRequest
    rv,              \* the call's position, locals and outcome
    uploads,         \* per file of the call: its uploadImage promise
    deletes,         \* per public id: its deleteImage promise
    mediaAtCall,     \* the media store when the call arrived
    reviewAtCall,    \* the review collection when the call arrived
    pg,              \* one getOrdersByUserId call: arguments, locals, response
    hm               \* a DatabaseHealthMonitor: its fields, the checks under way

orderVars == <<posterModel, orderModel, orderDetail, pc, idx, validatedItems, subtotal,
               order, error, faults, stockAtCall>>

reviewVars == <<mediaStore, reviewModel, reviewCall, rv, uploads, deletes,
                mediaAtCall, reviewAtCall>>

\* what createOrder does not touch
otherVars == <<calc, reviewVars, pg, hm>>

vars == <<orderVars, otherVars>>

\* no evaluation of the pricing helpers is under way
CalcIdle == [phase |-> "idle"]

Stocks == [p \in Products |-> posterModel[p].stock]

\* the catalog with the given stock levels
Catalog(levels) ==
    { [p \in Products |-> [price |-> CatalogPrice(p), stock |-> st[p]]] :
        st \in [Products -> levels] }

\* ---- reviews and their images
\* public ids: what uploadImage gives the files of the call, the images of the
\* caller's review, the image of somebody else's review
NewIdNames == <<"n1", "n2", "n3", "n4", "n5", "n6">>
NewId(i) == NewIdNames[i]
NewIds(n) == { NewId(i) : i \in 1..n }
OwnImageSets == { {}, {"e1"}, {"e1", "e2", "e3"} }
ForeignImage == "x1"
PublicIds == NewIds(MaxFiles) \cup {"e1", "e2", "e3"} \cup {ForeignImage}

\* the review of another user, and the caller's review with the given images
ForeignReview ==
    [id |-> "rv2", userId |-> "u2", posterId |-> "A", images |-> {ForeignImage}, text |-> "old"]
OwnReview(imgs) ==
    [id |-> "rv1", userId |-> "u1", posterId |-> "A", images |-> imgs, text |-> "old"]

\* the locals of a call that has not begun
RvIdle ==
    [pc |-> "idle", uploadedImages |-> {}, imagesToDeleteFromCloud |-> {},
     finalImages |-> {}, caught |-> None, error |-> None]

\* createReview(reviewDetails, images, userId, posterId)
CreateCalls ==
    { [kind |-> "create", files |-> n, userId |-> "u1", posterId |-> "A", reviewId |-> None,
       role |-> "USER", imageAction |-> None, imagesToDelete |-> {}] : n \in 0..MaxFiles }

\* updateReview(reviewId, role, reviewDetails, userId, images)
UpdateCalls ==
    { [kind |-> "update", files |-> n, userId |-> "u1", posterId |-> None, reviewId |-> id,
       role |-> ro, imageAction |-> act, imagesToDelete |-> del] :
        n \in 0..MaxFiles, id \in {"rv1", "rv2"}, ro \in {"USER", "ADMIN"},
        act \in {"replace", "add"}, del \in SUBSET {"e1", ForeignImage} }

\* deleteReview(reviewId, userId, role)
DeleteCalls ==
    { [kind |-> "delete", files |-> 0, userId |-> "u1", posterId |-> None, reviewId |-> id,
       role |-> ro, imageAction |-> None, imagesToDelete |-> {}] :
        id \in {"rv1", "rv2"}, ro \in {"USER", "ADMIN"} }

\* no ReviewService call
InitReviewIdle ==
    /\ mediaStore = {ForeignImage}
    /\ reviewModel = {ForeignReview}
    /\ reviewCall = NoRequest
    /\ rv = RvIdle
    /\ uploads = [i \in 1..MaxFiles |-> "none"]
    /\ deletes = [id \in PublicIds |-> "none"]
    /\ mediaAtCall = mediaStore
    /\ reviewAtCall = reviewModel

\* the inputs of one evaluation of the pricing helpers, nothing computed yet
CalcInputs ==
    { [phase |-> "ready", subtotal |-> s * Unit, totalQuantity |-> q, state |-> st,
       service |-> None, shipping |-> Absent, tax |-> Absent] :
        s \in 0..MaxSubtotal, q \in 1..(MaxItems * MaxQty),
        st \in remoteStates \cup {"Delhi"} }

\* no getOrdersByUserId call
PgIdle == [pc |-> "idle"]

\* a DatabaseHealthMonitor as constructed, of the given class: MonitorA is the one of
\* health/health-monitor.ts, MonitorB the one of database.config.ts
HmNew(class) ==
    [class |-> class, failure |-> 0, last |-> NoDoc,
     started |-> 0, inflight |-> 0, history |-> <<>>, returned |-> NoDoc]

\* an order placed earlier: the k-th oldest order of user u
PastOrder(k, u) == [id |-> k, customer |-> u, createdAt |-> k]

\* the arguments of getOrdersByUserId(userId, page, limit)
PageCalls ==
    { [pc |-> "called", userId |-> u, page |-> p, limit |-> l,
       validPage |-> Absent, validLimit |-> Absent, skip |-> Absent,
       totalOrders |-> Absent, result |-> NoDoc, error |-> None] :
        u \in {"u1", BadId}, p \in -1..MaxPage,
        l \in (-1..3) \cup ((MaxLimit - 1)..(MaxLimit + 2)) }

\* no createOrder call has arrived
InitOrderLocals ==
    /\ pc = [r \in Reqs |-> "idle"]
    /\ idx = [r \in Reqs |-> 0]
    /\ validatedItems = [r \in Reqs |-> <<>>]
    /\ subtotal = [r \in Reqs |-> 0]
    /\ order = [r \in Reqs |-> NoDoc]
    /\ error = [r \in Reqs |-> None]
    /\ faults = MaxFaults
    /\ stockAtCall = [r \in Reqs |-> [p \in Products |-> posterModel[p].stock]]

InitOrderState ==
    /\ orderModel = {}
    /\ InitOrderLocals

InitCommon ==
    /\ InitOrderState
    /\ calc = CalcIdle
    /\ InitReviewIdle
    /\ pg = PgIdle
    /\ hm = HmNew(None)

\* concurrent requests for the same catalog
Init ==
    /\ posterModel \in Catalog(0..MaxStock)
    /\ InitCommon
    /\ orderDetail \in [Reqs -> ConcPayloads]

\* one request at a time, any payload
InitSingle ==
    /\ posterModel \in Catalog({1, MaxStock})
    /\ InitCommon
    /\ \E d \in PricingPayloads \cup CustomerPayloads \cup EmptyPayloads \cup StatusPayloads :
         orderDetail = [r \in Reqs |-> IF r = 1 THEN d ELSE NoRequest]

\* one honest request against every kind of stock record: negative, empty, short, ample
InitCatalog ==
    /\ posterModel \in Catalog((-1..MaxStock) \cup {5})
    /\ InitCommon
    /\ \E d \in ConcPayloads :
         orderDetail = [r \in Reqs |-> IF r = 1 THEN d ELSE NoRequest]

\* the pricing helpers on their own, for every subtotal, quantity and state
InitCalc ==
    /\ posterModel \in Catalog({MaxStock})
    /\ InitOrderState
    /\ orderDetail = [r \in Reqs |-> NoRequest]
    /\ calc \in CalcInputs
    /\ InitReviewIdle
    /\ pg = PgIdle
    /\ hm = HmNew(None)

\* one getOrdersByUserId call against the order history of user u1: none, a few,
\* or more than the largest page holds; one order of another user besides
InitPage ==
    /\ posterModel \in Catalog({MaxStock})
    /\ InitOrderLocals
    /\ \E n \in (0..MaxOrders) \cup {MaxLimit, MaxLimit + 1, 2 * MaxLimit + 1} :
         orderModel = { PastOrder(k, "u1") : k \in 1..n } \cup {PastOrder(0, "u2")}
    /\ orderDetail = [r \in Reqs |-> NoRequest]
    /\ calc = CalcIdle
    /\ InitReviewIdle
    /\ pg \in PageCalls
    /\ hm = HmNew(None)

\* a health monitor of either class, no check made yet
InitHealth ==
    /\ posterModel \in Catalog({MaxStock})
    /\ InitOrderState
    /\ orderDetail = [r \in Reqs |-> NoRequest]
    /\ calc = CalcIdle
    /\ InitReviewIdle
    /\ pg = PgIdle
    /\ hm \in { HmNew(class) : class \in {"MonitorA", "MonitorB"} }

\* one createReview or updateReview call; the caller may or may not have a review
InitReview ==
    /\ posterModel \in Catalog({MaxStock})
    /\ InitOrderState
    /\ orderDetail = [r \in Reqs |-> NoRequest]
    /\ calc = CalcIdle
    /\ \E own \in {{}} \cup { {OwnReview(imgs)} : imgs \in OwnImageSets } :
         /\ reviewModel = {ForeignReview} \cup own
         /\ mediaStore = UNION { d.images : d \in reviewModel }
    /\ reviewCall \in CreateCalls \cup UpdateCalls \cup DeleteCalls
    /\ rv = RvIdle
    /\ uploads = [i \in 1..MaxFiles |-> "none"]
    /\ deletes = [id \in PublicIds |-> "none"]
    /\ mediaAtCall = mediaStore
    /\ reviewAtCall = reviewModel
    /\ pg = PgIdle
    /\ hm = HmNew(None)

\* ------------------------------------------------- createOrder, step by step
\* the catch block logs and rethrows: the call ends with the error, its locals are gone
Throw(r, e) ==
    /\ pc' = [pc EXCEPT ![r] = "failed"]
    /\ error' = [error EXCEPT ![r] = e]
    /\ idx' = [idx EXCEPT ![r] = 0]
    /\ validatedItems' = [validatedItems EXCEPT ![r] = <<>>]
    /\ subtotal' = [subtotal EXCEPT ![r] = 0]
    /\ order' = [order EXCEPT ![r] = NoDoc]

\* a database call that rejects
StorageFailure(r) ==
    /\ faults > 0
    /\ faults' = faults - 1
    /\ Throw(r, "StorageFailure")

\* where the code goes once the item loop is over
AfterItems(r) == IF orderDetail[r].userId # None THEN "customer" ELSE "pricing"

\* the call arrives; ID VALIDATION runs before the first await
Start(r) ==
    /\ pc[r] = "idle"
    /\ UNCHANGED otherVars
    /\ orderDetail[r] # NoRequest
    /\ stockAtCall' = [stockAtCall EXCEPT ![r] = Stocks]
    /\ UNCHANGED <<posterModel, orderModel, orderDetail, faults>>
    /\ LET d == orderDetail[r] IN
       IF \/ (d.userId # None /\ ~isValidObjectId(d.userId))
          \/ \E i \in 1..Len(d.items) : ~isValidObjectId(d.items[i].posterId)
       THEN Throw(r, "InvalidId")
       ELSE /\ pc' = [pc EXCEPT ![r] = IF d.items = <<>> THEN AfterItems(r) ELSE "validate"]
            /\ idx' = [idx EXCEPT ![r] = 1]
            /\ UNCHANGED <<validatedItems, subtotal, order, error>>

\* the entry pushed to validatedItems for an item that passed
ValidatedItemClientPrice(item, poster) ==
    [posterId |-> item.posterId, quantity |-> item.quantity, price |-> item.price]

ValidatedItem(item, poster) ==
    [posterId |-> item.posterId, quantity |-> item.quantity, price |-> poster.price]

\* the stock check of an item; every poster of the catalog modelled here has a stock
InsufficientStockOnlyWhenEmpty(poster, quantity) == poster.stock <= 0

InsufficientStock(poster, quantity) == poster.stock < quantity

\* the price check of an item: the client's price against the poster's
PriceMismatch(item, poster) == Abs(item.price - poster.price) > Tolerance

\* the poster collection after posterModel.findById(id).lean(): a read leaves it as it is
findByIdReserving(pm, item) ==
    IF item.posterId \in DOMAIN pm /\ ~InsufficientStock(pm[item.posterId], item.quantity)
    THEN [pm EXCEPT ![item.posterId].stock = @ - item.quantity]
    ELSE pm

findByIdLean(pm, item) == pm

\* ITEM VALIDATION: one iteration of the loop, i.e. one posterModel.findById
ValidateItem(r) ==
    /\ pc[r] = "validate"
    /\ UNCHANGED otherVars
    /\ posterModel' = findByIdLean(posterModel, orderDetail[r].items[idx[r]])
    /\ UNCHANGED <<orderModel, orderDetail, stockAtCall>>
    /\ \/ StorageFailure(r)
       \/ /\ UNCHANGED faults
          /\ LET item == orderDetail[r].items[idx[r]] IN
             IF item.posterId \notin DOMAIN posterModel
             THEN Throw(r, "NotFound")
             ELSE LET poster == posterModel[item.posterId] IN
                  IF InsufficientStock(poster, item.quantity)
                  THEN Throw(r, "InsufficientStock")
                  ELSE IF PriceMismatch(item, poster)
                  THEN Throw(r, "PriceMismatch")
                  ELSE /\ validatedItems' =
                            [validatedItems EXCEPT ![r] = Append(@, ValidatedItem(item, poster))]
                       /\ subtotal' = [subtotal EXCEPT ![r] = @ + poster.price * item.quantity]
                       /\ idx' = [idx EXCEPT ![r] = @ + 1]
                       /\ pc' = [pc EXCEPT ![r] =
                                   IF idx[r] = Len(orderDetail[r].items)
                                   THEN AfterItems(r) ELSE "validate"]
                       /\ UNCHANGED <<order, error>>

\* CUSTOMER INFO: userModel.findById, only for a request that carries a userId
CustomerInfo(r) ==
    /\ pc[r] = "customer"
    /\ UNCHANGED otherVars
    /\ UNCHANGED <<posterModel, orderModel, orderDetail, stockAtCall>>
    /\ \/ StorageFailure(r)
       \/ /\ UNCHANGED faults
          /\ IF orderDetail[r].userId \notin Users
             THEN Throw(r, "UserNotFound")
             ELSE /\ pc' = [pc EXCEPT ![r] = "pricing"]
                  /\ UNCHANGED <<idx, validatedItems, subtotal, order, error>>

\* the payment check: false means "Payment amount mismatch"
PaymentMatchesUnchecked(amount, totalPrice) == TRUE

PaymentMatches(amount, totalPrice) == ~(Abs(amount - totalPrice) > Tolerance)

\* status: orderDetail.status || OrderStatus.PENDING
InitialStatusByMethod(d) == IF d.method = "COD" THEN "PENDING" ELSE "PROCESSING"

InitialStatus(d) == IF d.status # None THEN d.status ELSE "PENDING"

\* the document handed to new this.orderModel(...)
NewOrder(r, d, items, sub) ==
    LET shippingCost == Coalesce(d.shippingCost, calculateShipping(sub, d.state))
        taxAmount == Coalesce(d.taxAmount, calculateTax(sub))
        totalPrice == Coalesce(d.totalPrice, sub + shippingCost + taxAmount)
    IN  [id |-> r,
         customer |-> d.userId,
         items |-> items,
         state |-> d.state,
         amount |-> d.amount,
         method |-> d.method,
         status |-> InitialStatus(d),
         isPaid |-> IF d.isPaid # None THEN d.isPaid ELSE d.method # "COD",
         shippingCost |-> shippingCost,
         taxAmount |-> taxAmount,
         totalPrice |-> totalPrice]

\* CALCULATIONS and CREATE ORDER: synchronous, up to the call of order.save()
Pricing(r) ==
    /\ pc[r] = "pricing"
    /\ UNCHANGED otherVars
    /\ UNCHANGED <<posterModel, orderModel, orderDetail, faults, stockAtCall>>
    /\ LET doc == NewOrder(r, orderDetail[r], validatedItems[r], subtotal[r]) IN
       IF ~PaymentMatches(orderDetail[r].amount, doc.totalPrice)
       THEN Throw(r, "PaymentAmountMismatch")
       ELSE /\ order' = [order EXCEPT ![r] = doc]
            /\ pc' = [pc EXCEPT ![r] = "save"]
            /\ UNCHANGED <<idx, validatedItems, subtotal, error>>

\* the call has returned savedOrder: its locals are gone
Return(r) ==
    /\ pc' = [pc EXCEPT ![r] = "returned"]
    /\ idx' = [idx EXCEPT ![r] = 0]
    /\ validatedItems' = [validatedItems EXCEPT ![r] = <<>>]
    /\ subtotal' = [subtotal EXCEPT ![r] = 0]
    /\ order' = [order EXCEPT ![r] = NoDoc]
    /\ UNCHANGED error

\* order.save() completes
Save(r) ==
    /\ pc[r] = "save"
    /\ UNCHANGED otherVars
    /\ UNCHANGED <<posterModel, orderDetail, stockAtCall>>
    /\ \/ /\ StorageFailure(r)
          /\ UNCHANGED orderModel
       \/ /\ UNCHANGED faults
          /\ orderModel' = orderModel \cup {order[r]}
          /\ IF validatedItems[r] = <<>>
             THEN Return(r)
             ELSE /\ pc' = [pc EXCEPT ![r] = "stock"]
                  /\ idx' = [idx EXCEPT ![r] = 1]
                  /\ UNCHANGED <<validatedItems, subtotal, order, error>>

\* findByIdAndUpdate(id, {$inc: {stock: -quantity}}): the new stock of a poster
IncStockByOne(stock, quantity) == stock - 1

IncStock(stock, quantity) == stock - quantity

\* for (const item of validatedItems): the item of the i-th iteration
LoopItemBackwards(items, i) == items[Len(items) + 1 - i]

LoopItem(items, i) == items[i]

\* UPDATE STOCK: one iteration of the loop, i.e. one posterModel.findByIdAndUpdate
UpdateStock(r) ==
    /\ pc[r] = "stock"
    /\ UNCHANGED otherVars
    /\ UNCHANGED <<orderModel, orderDetail, stockAtCall>>
    /\ \/ /\ StorageFailure(r)
          /\ UNCHANGED posterModel
       \/ /\ UNCHANGED faults
          /\ LET item == LoopItem(validatedItems[r], idx[r]) IN
             posterModel' = [posterModel EXCEPT ![item.posterId].stock =
                                                   IncStock(@, item.quantity)]
          /\ IF idx[r] = Len(validatedItems[r])
             THEN Return(r)
             ELSE /\ idx' = [idx EXCEPT ![r] = @ + 1]
                  /\ UNCHANGED <<pc, validatedItems, subtotal, order, error>>

Next ==
    \E r \in Reqs :
        \/ Start(r)
        \/ ValidateItem(r)
        \/ CustomerInfo(r)
        \/ Pricing(r)
        \/ Save(r)
        \/ UpdateStock(r)

Spec == Init /\ [][Next]_vars

SpecSingle == InitSingle /\ [][Next]_vars

SpecCatalog == InitCatalog /\ [][Next]_vars

\* ------------------------------------------------- the pricing helpers alone
\* the first OrdersService: calculateShipping(subtotal, state), calculateTax(subtotal)
EvalCurrent ==
    /\ calc.phase = "ready"
    /\ calc' = [calc EXCEPT !.phase = "done", !.service = "current",
                            !.shipping = calculateShipping(calc.subtotal, calc.state),
                            !.tax = calculateTax(calc.subtotal)]
    /\ UNCHANGED <<orderVars, reviewVars, pg, hm>>

\* the second OrdersService: calculateShipping(totalQuantity, state), calculateTax(subtotal)
EvalLegacy ==
    /\ calc.phase = "ready"
    /\ calc' = [calc EXCEPT !.phase = "done", !.service = "legacy",
                            !.shipping = calculateShippingLegacy(calc.totalQuantity, calc.state),
                            !.tax = calculateTaxLegacy(calc.subtotal)]
    /\ UNCHANGED <<orderVars, reviewVars, pg, hm>>

NextCalc == EvalCurrent \/ EvalLegacy

SpecCalc == InitCalc /\ [][NextCalc]_vars

\* ------------------------------------------------- ReviewService, step by step
\* Every action is the completion of what the call awaits, followed by the code that
\* then runs up to the next await.

\* deleteMultipleImages(ids): one deleteImage promise per public id
Issue(del, ids) == [id \in PublicIds |-> IF id \in ids THEN "pending" ELSE del[id]]

\* uploadMultipleImages(images): one uploadImage promise per file
IssueUploads(n) == [i \in 1..MaxFiles |-> IF i <= n THEN "pending" ELSE "none"]

\* the catch block of createReview and of updateReview, entered with the error e: the
\* locals it leads to and the deletions it starts
CatchWithoutCleanup(l, e) ==
    [rv |-> [l EXCEPT !.pc = "failed", !.error = e], issue |-> {}]

CatchDeletingMarked(l, e) ==
    [rv |-> [l EXCEPT !.pc = "cleanup", !.caught = e],
     issue |-> l.uploadedImages \cup l.imagesToDeleteFromCloud]

Catch(l, e) ==
    IF l.uploadedImages # {}
    THEN [rv |-> [l EXCEPT !.pc = "cleanup", !.caught = e], issue |-> l.uploadedImages]
    ELSE [rv |-> [l EXCEPT !.pc = "failed", !.error = e], issue |-> {}]

\* updateReview: the maximum-images check, then findByIdAndUpdate
CheckAndUpdate(l) ==
    IF Cardinality(l.finalImages) > MaxImagesPerReview
    THEN Catch(l, "Validation")
    ELSE [rv |-> [l EXCEPT !.pc = "updating"], issue |-> {}]

\* updateReview: delete the images marked for deletion, if any
DeleteOld(l) ==
    IF l.imagesToDeleteFromCloud # {}
    THEN [rv |-> [l EXCEPT !.pc = "deletingOld"], issue |-> l.imagesToDeleteFromCloud]
    ELSE CheckAndUpdate(l)

\* what follows the upload section: createReview builds the document and saves it,
\* updateReview goes on to delete the old images
AfterUpload(l, c) ==
    IF c.kind = "create"
    THEN [rv |-> [l EXCEPT !.pc = "saving"], issue |-> {}]
    ELSE DeleteOld(l)

\* the locals once uploadMultipleImages has resolved with all the files of the call
Uploaded(l, c) ==
    [l EXCEPT !.uploadedImages = NewIds(c.files),
              !.finalImages = IF c.imageAction = "replace" THEN NewIds(c.files)
                              ELSE l.finalImages \cup NewIds(c.files)]

reviewInputs == <<reviewCall, mediaAtCall, reviewAtCall>>

\* createReview is called: the arguments are valid, findOne is awaited
StartCreate ==
    /\ rv.pc = "idle"
    /\ reviewCall # NoRequest
    /\ reviewCall.kind = "create"
    /\ rv' = [rv EXCEPT !.pc = "findOne"]
    /\ UNCHANGED <<orderVars, calc, pg, hm, reviewInputs, mediaStore, reviewModel, uploads, deletes>>

\* reviewModel.findOne({userId, posterId}): the reviews of that user for that poster
findOneById(model, c) == { d \in model : d.id = c.reviewId }

findOne(model, c) == { d \in model : d.userId = c.userId /\ d.posterId = c.posterId }

\* findOne({userId, posterId}) answers: Conflict, or the uploads start, or save()
FindOneDone ==
    /\ rv.pc = "findOne"
    /\ LET c == reviewCall
           existingReview == findOne(reviewModel, c)
       IN  IF existingReview # {}
           THEN /\ rv' = [rv EXCEPT !.pc = "failed", !.error = "Conflict"]
                /\ UNCHANGED uploads
           ELSE IF c.files > 0
           THEN /\ rv' = [rv EXCEPT !.pc = "uploading"]
                /\ uploads' = IssueUploads(c.files)
           ELSE /\ rv' = AfterUpload(rv, c).rv
                /\ UNCHANGED uploads
    /\ UNCHANGED <<orderVars, calc, pg, hm, reviewInputs, mediaStore, reviewModel, deletes>>

\* updateReview is called: the arguments are valid, findById is awaited
StartUpdate ==
    /\ rv.pc = "idle"
    /\ reviewCall # NoRequest
    /\ reviewCall.kind = "update"
    /\ rv' = [rv EXCEPT !.pc = "findById"]
    /\ UNCHANGED <<orderVars, calc, pg, hm, reviewInputs, mediaStore, reviewModel, uploads, deletes>>

\* findById(reviewId) answers: NotFound, Forbidden, or the image handling begins
FindByIdDone ==
    /\ rv.pc = "findById"
    /\ LET c == reviewCall
           found == { d \in reviewModel : d.id = c.reviewId }
       IN  IF found = {}
           THEN /\ rv' = [rv EXCEPT !.pc = "failed", !.error = "NotFound"]
                /\ UNCHANGED <<uploads, deletes>>
           ELSE LET existingReview == CHOOSE d \in found : TRUE
                    l == [rv EXCEPT
                            !.imagesToDeleteFromCloud =
                                IF c.imageAction = "replace" THEN existingReview.images
                                ELSE c.imagesToDelete,
                            !.finalImages =
                                IF c.imageAction = "replace" THEN {}
                                ELSE existingReview.images \ c.imagesToDelete]
                IN  IF c.role # "ADMIN" /\ existingReview.userId # c.userId
                    THEN /\ rv' = [rv EXCEPT !.pc = "failed", !.error = "Forbidden"]
                         /\ UNCHANGED <<uploads, deletes>>
                    ELSE IF c.files > 0
                    THEN /\ rv' = [l EXCEPT !.pc = "uploading"]
                         /\ uploads' = IssueUploads(c.files)
                         /\ UNCHANGED deletes
                    ELSE /\ rv' = AfterUpload(l, c).rv
                         /\ deletes' = Issue(deletes, AfterUpload(l, c).issue)
                         /\ UNCHANGED uploads
    /\ UNCHANGED <<orderVars, calc, pg, hm, reviewInputs, mediaStore, reviewModel>>

\* one uploadImage promise settles. A success puts the image into the media store.
\* While the call awaits Promise.all: the first failure rejects it at once, the last
\* success resolves it; the other promises go on whatever the call does.
SettleUpload(i, ok) ==
    /\ uploads[i] = "pending"
    /\ uploads' = [uploads EXCEPT ![i] = IF ok THEN "ok" ELSE "failed"]
    /\ mediaStore' = IF ok THEN mediaStore \cup {NewId(i)} ELSE mediaStore
    /\ LET c == reviewCall
           next == IF rv.pc # "uploading" THEN [rv |-> rv, issue |-> {}]
                   ELSE IF ~ok THEN Catch(rv, "UploadFailed")
                   ELSE IF \A k \in 1..c.files : uploads'[k] = "ok"
                   THEN AfterUpload(Uploaded(rv, c), c)
                   ELSE [rv |-> rv, issue |-> {}]
       IN  /\ rv' = next.rv
           /\ deletes' = Issue(deletes, next.issue)
    /\ UNCHANGED <<orderVars, calc, pg, hm, reviewInputs, reviewModel>>

\* newReview.save() settles
SaveDone(ok) ==
    /\ rv.pc = "saving"
    /\ IF ok
       THEN /\ reviewModel' = reviewModel \cup
                  {[id |-> "rv3", userId |-> reviewCall.userId,
                    posterId |-> reviewCall.posterId, images |-> rv.uploadedImages,
                    text |-> "new"]}
            /\ rv' = [rv EXCEPT !.pc = "returned"]
            /\ UNCHANGED deletes
       ELSE /\ rv' = Catch(rv, "SaveFailed").rv
            /\ deletes' = Issue(deletes, Catch(rv, "SaveFailed").issue)
            /\ UNCHANGED reviewModel
    /\ UNCHANGED <<orderVars, calc, pg, hm, reviewInputs, mediaStore, uploads>>

\* findByIdAndUpdate(reviewId, {...reviewFields, images: finalImages}) settles
UpdateDone(ok) ==
    /\ rv.pc = "updating"
    /\ IF ok
       THEN /\ reviewModel' =
                  { IF d.id = reviewCall.reviewId
                    THEN [d EXCEPT !.images = rv.finalImages, !.text = "new"]
                    ELSE d : d \in reviewModel }
            /\ rv' = [rv EXCEPT !.pc = "returned"]
            /\ UNCHANGED deletes
       ELSE /\ rv' = Catch(rv, "UpdateFailed").rv
            /\ deletes' = Issue(deletes, Catch(rv, "UpdateFailed").issue)
            /\ UNCHANGED reviewModel
    /\ UNCHANGED <<orderVars, calc, pg, hm, reviewInputs, mediaStore, uploads>>

\* deleteReview is called: the id is valid, findById is awaited
StartDelete ==
    /\ rv.pc = "idle"
    /\ reviewCall # NoRequest
    /\ reviewCall.kind = "delete"
    /\ rv' = [rv EXCEPT !.pc = "findForDelete"]
    /\ UNCHANGED <<orderVars, calc, pg, hm, reviewInputs, mediaStore, reviewModel, uploads, deletes>>

\* findById(reviewId) answers: NotFound, Forbidden, or findByIdAndDelete is awaited
FindForDeleteDone ==
    /\ rv.pc = "findForDelete"
    /\ LET c == reviewCall
           found == { d \in reviewModel : d.id = c.reviewId }
       IN  IF found = {}
           THEN rv' = [rv EXCEPT !.pc = "failed", !.error = "NotFound"]
           ELSE IF c.role # "ADMIN" /\ (CHOOSE d \in found : TRUE).userId # c.userId
           THEN rv' = [rv EXCEPT !.pc = "failed", !.error = "Forbidden"]
           ELSE rv' = [rv EXCEPT !.pc = "removing"]
    /\ UNCHANGED <<orderVars, calc, pg, hm, reviewInputs, mediaStore, reviewModel, uploads, deletes>>

\* findByIdAndDelete(reviewId) settles; deleteReview then returns
RemoveDone(ok) ==
    /\ rv.pc = "removing"
    /\ IF ok
       THEN /\ reviewModel' = { d \in reviewModel : d.id # reviewCall.reviewId }
            /\ rv' = [rv EXCEPT !.pc = "returned"]
       ELSE /\ rv' = [rv EXCEPT !.pc = "failed", !.error = "RemoveFailed"]
            /\ UNCHANGED reviewModel
    /\ UNCHANGED <<orderVars, calc, pg, hm, reviewInputs, mediaStore, uploads, deletes>>

\* the public ids whose deletion the call is awaiting
Awaited(l) ==
    IF l.pc = "cleanup" THEN l.uploadedImages
    ELSE IF l.pc = "deletingOld" THEN l.imagesToDeleteFromCloud
    ELSE {}

\* one deleteImage promise settles ('ok' and 'not found' both count as success). While
\* the call awaits Promise.all: the first failure makes deleteMultipleImages throw.
\* In the catch block that error replaces the one being rethrown; in the try block
\* of updateReview it is caught like any other.
SettleDelete(id, ok) ==
    /\ deletes[id] = "pending"
    /\ mediaStore' = IF ok THEN mediaStore \ {id} ELSE mediaStore
    /\ LET settled == [deletes EXCEPT ![id] = IF ok THEN "ok" ELSE "failed"]
           allDone == \A k \in Awaited(rv) : settled[k] = "ok"
           next == IF id \notin Awaited(rv) THEN [rv |-> rv, issue |-> {}]
                   ELSE IF rv.pc = "cleanup"
                   THEN IF ~ok
                        THEN [rv |-> [rv EXCEPT !.pc = "failed", !.error = "DeleteFailed"],
                              issue |-> {}]
                        ELSE IF allDone
                        THEN [rv |-> [rv EXCEPT !.pc = "failed", !.error = rv.caught],
                              issue |-> {}]
                        ELSE [rv |-> rv, issue |-> {}]
                   ELSE IF ~ok THEN Catch(rv, "DeleteFailed")
                   ELSE IF allDone THEN CheckAndUpdate(rv)
                   ELSE [rv |-> rv, issue |-> {}]
       IN  /\ rv' = next.rv
           /\ deletes' = Issue(settled, next.issue)
    /\ UNCHANGED <<orderVars, calc, pg, hm, reviewInputs, reviewModel, uploads>>

NextReview ==
    \/ StartCreate
    \/ FindOneDone
    \/ StartUpdate
    \/ FindByIdDone
    \/ \E i \in 1..MaxFiles, ok \in BOOLEAN : SettleUpload(i, ok)
    \/ \E ok \in BOOLEAN : SaveDone(ok)
    \/ \E ok \in BOOLEAN : UpdateDone(ok)
    \/ \E id \in PublicIds, ok \in BOOLEAN : SettleDelete(id, ok)
    \/ StartDelete
    \/ FindForDeleteDone
    \/ \E ok \in BOOLEAN : RemoveDone(ok)

SpecReview == InitReview /\ [][NextReview]_vars

\* ------------------------------------------------- getOrdersByUserId
\* Math.max(1, page)
validPage(page) == IF page > 1 THEN page ELSE 1

\* Math.min(50, Math.max(1, limit))
validLimitUncapped(limit) == IF limit > 1 THEN limit ELSE 1

validLimit(limit) ==
    LET atLeastOne == IF limit > 1 THEN limit ELSE 1
    IN  IF atLeastOne < MaxLimit THEN atLeastOne ELSE MaxLimit

\* Math.ceil(a / b) for a >= 0, b >= 1
Ceil(a, b) == (a + b - 1) \div b

\* the orders of a user
OrdersOfUser(userId) == { o \in orderModel : o.customer = userId }

\* find(...).sort({createdAt: -1}).skip(skip).limit(limit): the page, newest first
FindPage(userId, skip, limit) ==
    LET mine == OrdersOfUser(userId)
        Rank(o) == Cardinality({ x \in mine : x.createdAt > o.createdAt }) + 1
        sel == { o \in mine : skip < Rank(o) /\ Rank(o) <= skip + limit }
    IN  [i \in 1..Cardinality(sel) |-> (CHOOSE o \in sel : Rank(o) = skip + i).id]

\* the call begins: the user id is checked, the parameters are clamped,
\* countDocuments is awaited
GetOrdersStart ==
    /\ pg.pc = "called"
    /\ IF ~isValidObjectId(pg.userId)
       THEN pg' = [pg EXCEPT !.pc = "failed", !.error = "BadRequest"]
       ELSE pg' = [pg EXCEPT !.pc = "count",
                             !.validPage = validPage(pg.page),
                             !.validLimit = validLimit(pg.limit),
                             !.skip = (validPage(pg.page) - 1) * validLimit(pg.limit)]
    /\ UNCHANGED <<orderVars, calc, reviewVars, hm>>

\* countDocuments({'customer.userId': userId}) answers; find is awaited
CountDone ==
    /\ pg.pc = "count"
    /\ pg' = [pg EXCEPT !.pc = "find",
                        !.totalOrders = Cardinality(OrdersOfUser(pg.userId))]
    /\ UNCHANGED <<orderVars, calc, reviewVars, hm>>

\* find answers; the response is built and returned
FindDone ==
    /\ pg.pc = "find"
    /\ LET totalPages == Ceil(pg.totalOrders, pg.validLimit)
       IN  pg' = [pg EXCEPT !.pc = "returned",
                           !.result = [orders |-> FindPage(pg.userId, pg.skip, pg.validLimit),
                                       currentPage |-> pg.validPage,
                                       totalPages |-> totalPages,
                                       totalOrders |-> pg.totalOrders,
                                       limit |-> pg.validLimit,
                                       hasNextPage |-> pg.validPage < totalPages,
                                       hasPrevPage |-> pg.validPage > 1]]
    /\ UNCHANGED <<orderVars, calc, reviewVars, hm>>

NextPage == GetOrdersStart \/ CountDone \/ FindDone

SpecPage == InitPage /\ [][NextPage]_vars

\* ------------------------------------------------- DatabaseHealthMonitor
\* what DatabaseHealthChecker.check() resolves with: resolveStatus gives 'unhealthy'
\* when disconnected, 'degraded' for a failed or slow ping, else 'healthy'; errors
\* is always an array
CheckerResults ==
    { [status |-> "healthy", errors |-> <<>>],
      [status |-> "degraded", errors |-> <<"Ping failed">>],
      [status |-> "degraded", errors |-> <<>>],
      [status |-> "unhealthy", errors |-> <<>>] }

\* does this result count as a failure?
\* database.config.ts: result.status !== 'healthy'
CountsAsFailureB(result) == result.status # "healthy"

\* health/health-monitor.ts: result.status === 'unhealthy'
CountsAsFailureA(result) == result.status = "unhealthy"

\* the counter after a result
FailureAfter(class, failure, result) ==
    IF (IF class = "MonitorA" THEN CountsAsFailureA(result) ELSE CountsAsFailureB(result))
    THEN failure + 1
    ELSE 0

\* if (failure >= MAX) { result.status = 'unhealthy'; result.errors?.push(...) }
Escalate(failure, result) ==
    IF failure >= MAX
    THEN [status |-> "unhealthy", errors |-> Append(result.errors, "3 consecutive failures")]
    ELSE result

\* check() is called, by the interval timer or directly: checker.check() is awaited
CheckCall ==
    /\ hm.class # None
    /\ hm.started < MaxChecks
    /\ hm' = [hm EXCEPT !.started = @ + 1, !.inflight = @ + 1]
    /\ UNCHANGED <<orderVars, calc, reviewVars, pg>>

\* checker.check() resolves for one of the calls under way; the rest of check() runs
\* without a break. Both classes leave in `last` the object they return: MonitorB
\* assigns it before it changes the object, MonitorA after.
CheckDone(result) ==
    /\ hm.inflight > 0
    /\ LET failure == FailureAfter(hm.class, hm.failure, result)
           final == Escalate(failure, result)
       IN  hm' = [hm EXCEPT !.inflight = @ - 1,
                           !.failure = failure,
                           !.last = final,
                           !.returned = final,
                           !.history = Append(@, result.status)]
    /\ UNCHANGED <<orderVars, calc, reviewVars, pg>>

NextHealth ==
    \/ CheckCall
    \/ \E result \in CheckerResults : CheckDone(result)

SpecHealth == InitHealth /\ [][NextHealth]_vars

\* ================================================================ properties
Done(r) == pc[r] \in {"returned", "failed"}

\* r is the only request that has been called so far
Solo(r) == \A s \in Reqs \ {r} : pc[s] = "idle"

OrdersOf(r) == { o \in orderModel : o.id = r }

\* the quantity a payload orders of poster p, over all its lines
RECURSIVE QtyOrdered(_, _)
QtyOrdered(items, p) ==
    IF items = <<>> THEN 0
    ELSE (IF Head(items).posterId = p THEN Head(items).quantity ELSE 0)
         + QtyOrdered(Tail(items), p)

\* C1: in every reachable state, under any interleaving of createOrder requests,
\* the stock of every poster is >= 0.
C1_StockNeverNegative ==
    \A p \in Products : posterModel[p].stock >= 0

\* C2: two requests called against the same stock s of poster p, each a single line
\* for p with quantity <= s and together more than s: once both have ended (and the
\* data store did not fail), exactly one has returned its order, the other has failed
\* with InsufficientStock, and the stock of p is not negative.
C2_ExactlyOneWins ==
    \A r1, r2 \in Reqs : \A p \in Products :
        ( /\ r1 < r2
          /\ Done(r1) /\ Done(r2)
          /\ faults = MaxFaults
          /\ Len(orderDetail[r1].items) = 1 /\ orderDetail[r1].items[1].posterId = p
          /\ Len(orderDetail[r2].items) = 1 /\ orderDetail[r2].items[1].posterId = p
          /\ stockAtCall[r1][p] = stockAtCall[r2][p]
          /\ orderDetail[r1].items[1].quantity <= stockAtCall[r1][p]
          /\ orderDetail[r2].items[1].quantity <= stockAtCall[r1][p]
          /\ orderDetail[r1].items[1].quantity + orderDetail[r2].items[1].quantity
               > stockAtCall[r1][p] )
        => /\ \E w, l \in {r1, r2} :
                 /\ w # l
                 /\ pc[w] = "returned"
                 /\ pc[l] = "failed" /\ error[l] = "InsufficientStock"
           /\ posterModel[p].stock >= 0

\* C3: a step of createOrder's stock update reduces the stock of a poster only if the
\* stock at the moment of the write is at least the quantity it takes off.
C3_DecrementIsConditional ==
    [][ \A p \in Products :
          posterModel'[p].stock < posterModel[p].stock
            => posterModel[p].stock >= posterModel[p].stock - posterModel'[p].stock ]_vars

\* C4: when a createOrder call that ran alone has returned its order, the stock of
\* every poster equals its stock before the call minus the quantity ordered of it,
\* and is >= 0.
C4_StockAfterCommit ==
    \A r \in Reqs :
        (pc[r] = "returned" /\ Solo(r))
        => \A p \in Products :
              /\ posterModel[p].stock
                   = stockAtCall[r][p] - QtyOrdered(orderDetail[r].items, p)
              /\ posterModel[p].stock >= 0

\* C5: a request whose paymentDetails.amount differs from the server-computed total
\* (catalog subtotal + computed shipping + computed tax) by more than 0.01 never gets
\* past the payment check: no Order of it exists and no stock has changed.
C5_MismatchIsNoOp ==
    \A r \in Reqs :
        ( /\ orderDetail[r] # NoRequest
          /\ Solo(r)
          /\ Abs(orderDetail[r].amount
                   - ServerTotal(orderDetail[r].items, orderDetail[r].state)) > Tolerance )
        => /\ pc[r] \notin {"save", "stock", "returned"}
           /\ OrdersOf(r) = {}
           /\ Stocks = stockAtCall[r]

\* C6: every persisted Order has totalPrice equal to the sum of its lines plus its
\* shippingCost plus its taxAmount, within 0.01.
C6_TotalIsSumOfParts ==
    \A o \in orderModel :
        Abs(o.totalPrice - (SumLines(o.items) + o.shippingCost + o.taxAmount)) <= Tolerance

\* C7: every Order persisted, or built and handed to save(), has paymentDetails.amount
\* equal to its totalPrice within 0.01.
C7_AmountMatchesTotal ==
    /\ \A o \in orderModel : Abs(o.amount - o.totalPrice) <= Tolerance
    /\ \A r \in Reqs : order[r] # NoDoc => Abs(order[r].amount - order[r].totalPrice) <= Tolerance

\* a persisted Order whose amount is not its totalPrice, yet within the tolerance
C7_Witness ==
    \E o \in orderModel : o.amount # o.totalPrice /\ o.totalPrice = o.amount - 5

\* C8: every item of every persisted Order carries the catalog price of its poster,
\* whatever price the client submitted for it.
C8_ItemsCarryCatalogPrice ==
    \A o \in orderModel : \A i \in 1..Len(o.items) :
        /\ o.items[i].posterId \in DOMAIN posterModel
        /\ o.items[i].price = posterModel[o.items[i].posterId].price

\* a persisted Order one of whose items was submitted with another price
C8_Witness ==
    \E o \in orderModel : \E i \in 1..Len(o.items) :
        /\ orderDetail[o.id].items[i].posterId = o.items[i].posterId
        /\ orderDetail[o.id].items[i].price # o.items[i].price

\* C9: every persisted Order has shippingCost = calculateShipping(subtotal, region),
\* taxAmount = calculateTax(subtotal) and totalPrice = subtotal + both, whatever
\* shippingCost / taxAmount / totalPrice the payload carried.
C9_PricingIsServerSide ==
    \A o \in orderModel :
        LET sub == SumLines(o.items) IN
        /\ o.shippingCost = calculateShipping(sub, o.state)
        /\ o.taxAmount = calculateTax(sub)
        /\ o.totalPrice = sub + calculateShipping(sub, o.state) + calculateTax(sub)

\* C10: after a createOrder call that ran alone has failed, no Order of it exists and
\* every stock equals its value before the call.
C10_FailureIsCompensated ==
    \A r \in Reqs :
        (pc[r] = "failed" /\ Solo(r))
        => /\ OrdersOf(r) = {}
           /\ Stocks = stockAtCall[r]

\* the errors createOrder raises while it validates the items and the customer
ValidationErrors == {"NotFound", "InsufficientStock", "PriceMismatch", "UserNotFound"}

\* C11: a createOrder call that failed validation (unknown poster, unknown user, price
\* mismatch, insufficient stock) has persisted nothing: no Order of it exists and
\* every stock is what it was when the call arrived.
C11_ValidationFailureHasNoEffect ==
    \A r \in Reqs :
        (pc[r] = "failed" /\ error[r] \in ValidationErrors /\ Solo(r))
        => /\ OrdersOf(r) = {}
           /\ Stocks = stockAtCall[r]

\* a call that passed every item and then failed on its unknown user
C11_Witness ==
    \E r \in Reqs :
        /\ pc[r] = "failed" /\ error[r] = "UserNotFound"
        /\ orderDetail[r].items[1].posterId \in Products

\* an item of the payload asks for more than the stock its poster had at validation
AsksTooMuch(r) ==
    \E i \in 1..Len(orderDetail[r].items) :
        orderDetail[r].items[i].quantity
          > stockAtCall[r][orderDetail[r].items[i].posterId]

C13_EmptyCartIsRejected ==
    \A r \in Reqs :
        (orderDetail[r] # NoRequest /\ orderDetail[r].items = <<>>)
        => /\ pc[r] \notin {"save", "stock", "returned"}
           /\ OrdersOf(r) = {}

\* C14: every persisted Order has status Pending when it is paid cash on delivery and
\* Processing when it is not.
C14_StatusFollowsMethod ==
    \A o \in orderModel :
        o.status = (IF o.method = "COD" THEN "PENDING" ELSE "PROCESSING")

\* C14, amended: every persisted Order has the status its payload carried, and Pending
\* when the payload carried none, whatever the payment method.
C14_StatusIsPayloadOrPending ==
    \A o \in orderModel :
        o.status = (IF orderDetail[o.id].status # None
                    THEN orderDetail[o.id].status ELSE "PENDING")

\* an Order paid online, sent without a status and persisted as Pending
C14_Witness ==
    \E o \in orderModel :
        o.method = "ONLINE" /\ orderDetail[o.id].status = None /\ o.status = "PENDING"

\* C17: the worked example. Two of poster A (price 100, stock 5) to Delhi with 286
\* paid: the order built has subtotal 200, shipping 50, tax 36 and total 286, the call
\* fails only if the data store fails, and once it has returned the Order is
\* persisted and stock(A) is 3.
C17_Scenario ==
    \A r \in Reqs :
        (orderDetail[r] = ScenarioOrder /\ stockAtCall[r]["A"] = 5 /\ Solo(r))
        => /\ order[r] # NoDoc =>
                /\ SumLines(order[r].items) = 200 * Unit
                /\ order[r].shippingCost = 50 * Unit
                /\ order[r].taxAmount = 36 * Unit
                /\ order[r].totalPrice = 286 * Unit
           /\ pc[r] = "failed" => error[r] = "StorageFailure"
           /\ pc[r] = "returned" =>
                /\ posterModel["A"].stock = 3
                /\ \E o \in OrdersOf(r) : o.totalPrice = 286 * Unit

\* the worked example has committed
C17_Witness ==
    \E r \in Reqs :
        /\ orderDetail[r] = ScenarioOrder /\ stockAtCall[r]["A"] = 5
        /\ pc[r] = "returned" /\ posterModel["A"].stock = 3
        /\ OrdersOf(r) # {}

\* C15: whichever calculateShipping of the file computes it, the shipping cost is 50
\* for a subtotal below 250 and 0 from 250 on, plus 150 exactly for the remote states.
C15_ShippingRule ==
    calc.phase = "done"
    => calc.shipping = (IF calc.subtotal < 250 * Unit THEN 50 * Unit ELSE 0)
                       + (IF calc.state \in {"Jammu and Kashmir", "Arunachal Pradesh", "Ladakh"}
                          THEN 150 * Unit ELSE 0)

\* C16: whichever calculateTax of the file computes it, the tax of a whole subtotal s
\* is the whole number floor((18 * s + 50) / 100).
C16_TaxRule ==
    calc.phase = "done"
    => calc.tax = ((18 * (calc.subtotal \div Unit) + 50) \div 100) * Unit

\* C18: once a createReview or updateReview call has failed because an upload of its
\* batch failed, no image of that batch is in the media store.
C18_FailedBatchLeavesNothing ==
    (rv.pc = "failed" /\ \E i \in 1..MaxFiles : uploads[i] = "failed")
    => NewIds(MaxFiles) \cap mediaStore = {}

C20_DeleteFailureChangesNothing ==
    rv.pc = "failed"
    => /\ rv.error # "DeleteFailed"
       /\ rv.caught # None => rv.error = rv.caught

\* the review the call names, as it was stored when the call arrived
TargetAtCall == { d \in reviewAtCall : d.id = reviewCall.reviewId }

\* C21: once deleteReview has returned, no image the deleted review referenced is in
\* the media store.
C21_DeletedReviewLeavesNoImage ==
    (reviewCall # NoRequest /\ reviewCall.kind = "delete" /\ rv.pc = "returned")
    => \A d \in TargetAtCall : d.images \cap mediaStore = {}

\* C22: a createReview call of a user who already has a review of the poster gets no
\* further than the existing-review check: it fails with Conflict, no upload is ever
\* started, and the review collection and the media store stay as they were.
C22_ConflictBeforeSideEffects ==
    (reviewCall # NoRequest /\ reviewCall.kind = "create"
       /\ \E d \in reviewAtCall :
            d.userId = reviewCall.userId /\ d.posterId = reviewCall.posterId)
    => /\ rv.pc \in {"idle", "findOne", "failed"}
       /\ rv.pc = "failed" => rv.error = "Conflict"
       /\ \A i \in 1..MaxFiles : uploads[i] = "none"
       /\ mediaStore = mediaAtCall
       /\ reviewModel = reviewAtCall

\* a createReview call that came with files and was refused for the existing review
C22_Witness ==
    /\ reviewCall # NoRequest /\ reviewCall.kind = "create" /\ reviewCall.files > 0
    /\ rv.pc = "failed" /\ rv.error = "Conflict"

\* C23: getOrdersByUserId fails only for a malformed user id, never for its page or
\* limit. What it returns reports the page raised to at least 1 and the limit
\* brought into 1..50; hasPrevPage says that page is beyond the first, hasNextPage
\* that orders remain beyond it; and it holds no more orders than the limit.
C23_PaginationIsClamped ==
    LET p == IF pg.page < 1 THEN 1 ELSE pg.page
        l == IF pg.limit < 1 THEN 1 ELSE IF pg.limit > 50 THEN 50 ELSE pg.limit
        total == Cardinality({ o \in orderModel : o.customer = pg.userId })
    IN  /\ pg.pc = "failed" => pg.userId = BadId
        /\ pg.pc = "returned" =>
             /\ pg.result.currentPage = p
             /\ pg.result.limit = l
             /\ pg.result.hasPrevPage = (p > 1)
             /\ pg.result.hasNextPage = (p * l < total)
             /\ pg.result.totalPages * l >= total
             /\ (pg.result.totalPages - 1) * l < total \/ total = 0
             /\ Len(pg.result.orders) <= l

\* a call with a page below 1 and a limit above 50 that returned a full first page
C23_Witness ==
    /\ pg.pc = "returned"
    /\ pg.page < 1 /\ pg.limit > 50
    /\ pg.result.currentPage = 1 /\ pg.result.limit = 50
    /\ pg.result.hasNextPage /\ Len(pg.result.orders) = 50

\* the steps createOrder may take from one phase to the next
PhaseSteps ==
    { <<"idle", "validate">>, <<"idle", "customer">>, <<"idle", "pricing">>,
      <<"validate", "customer">>, <<"validate", "pricing">>, <<"customer", "pricing">>,
      <<"pricing", "save">>, <<"save", "stock">>, <<"save", "returned">>,
      <<"stock", "returned">> }

\* C24: a createOrder call goes through validation, pricing, save, stock update and
\* return in that order, or fails. The Order is written only when every submitted
\* item has passed validation and the amount has passed the payment check; stock
\* changes only once the Order is written, by the quantity of one item at a time,
\* in the order submitted; the call returns only when the stock of every item has
\* been decremented.
C24_PhaseOrder ==
    [][\A r \in Reqs :
        LET d == orderDetail[r] IN
        /\ pc'[r] # pc[r] => (pc'[r] = "failed" \/ <<pc[r], pc'[r]>> \in PhaseSteps)
        /\ OrdersOf(r)' # OrdersOf(r) =>
             /\ pc[r] = "save"
             /\ Len(validatedItems[r]) = Len(d.items)
             /\ \A i \in 1..Len(d.items) :
                  /\ d.items[i].posterId \in DOMAIN posterModel
                  /\ d.items[i].quantity <= stockAtCall[r][d.items[i].posterId]
                  /\ Abs(d.items[i].price - posterModel[d.items[i].posterId].price) <= Tolerance
             /\ \E o \in OrdersOf(r)' : Abs(d.amount - o.totalPrice) <= Tolerance
        /\ (Solo(r) /\ pc[r] # "idle" /\ posterModel' # posterModel) =>
             /\ pc[r] = "stock"
             /\ OrdersOf(r) # {}
             /\ posterModel' = [posterModel EXCEPT ![d.items[idx[r]].posterId].stock =
                                                     @ - d.items[idx[r]].quantity]
             /\ \/ pc'[r] = "stock" /\ idx'[r] = idx[r] + 1
                \/ pc'[r] = "returned" /\ idx[r] = Len(d.items)
        /\ (pc[r] = "save" /\ pc'[r] = "stock") => idx'[r] = 1
        /\ (Solo(r) /\ pc[r] # "returned" /\ pc'[r] = "returned") =>
             /\ OrdersOf(r)' # {}
             /\ \A p \in Products :
                  posterModel'[p].stock = stockAtCall[r][p] - QtyOrdered(d.items, p)
    ]_vars

\* a call with two different posters in its cart has returned
C24_Witness ==
    \E r \in Reqs :
        /\ pc[r] = "returned"
        /\ Len(orderDetail[r].items) = 2
        /\ orderDetail[r].items[1].posterId # orderDetail[r].items[2].posterId
        /\ OrdersOf(r) # {}

\* C25: once a call has failed because an upload of its batch failed, every upload of
\* the batch has settled, and the deletion of every one that succeeded has been
\* started.
C25_CompensationWaitsForUploads ==
    (rv.pc = "failed" /\ rv.error = "UploadFailed")
    => \A i \in 1..reviewCall.files :
         /\ uploads[i] # "pending"
         /\ uploads[i] = "ok" => deletes[NewId(i)] # "none"

\* C26: when a createOrder call that ran alone has returned, no poster it ordered
\* has a negative stock, also when the cart names a poster in more than one line.
C26_SoloCallKeepsStockNonNegative ==
    \A r \in Reqs :
        (Solo(r) /\ pc[r] = "returned" /\ \A p \in Products : stockAtCall[r][p] >= 0)
        => \A i \in 1..Len(orderDetail[r].items) :
             posterModel[orderDetail[r].items[i].posterId].stock >= 0

\* an updateReview call is over
UpdateOver ==
    reviewCall # NoRequest /\ reviewCall.kind = "update" /\ rv.pc \in {"returned", "failed"}

\* C27: once an updateReview call is over, with or without success, every image the
\* stored review references is in the media store.
C27_StoredImagesExist ==
    UpdateOver
    => \A d \in reviewModel : d.id = reviewCall.reviewId => d.images \subseteq mediaStore

\* the images of the review the call names, as stored when the call arrived
TargetImages == UNION { d.images : d \in TargetAtCall }

\* C28: updateReview removes from the media store nothing but images of the review it
\* updates and images it uploaded itself: every other image that was in the store
\* when the call arrived stays there, and no deletion of it is ever started.
C28_DeletesOnlyOwnImages ==
    (reviewCall # NoRequest /\ reviewCall.kind = "update")
    => \A id \in mediaAtCall \ TargetImages :
         id \in mediaStore /\ deletes[id] = "none"

\* an updateReview call in 'replace' mode
Replacing ==
    reviewCall # NoRequest /\ reviewCall.kind = "update" /\ reviewCall.imageAction = "replace"

\* C29: in 'replace' mode the deletion of an existing image of the review is started
\* only when every upload of the new batch has succeeded; a call that failed on its
\* uploads has left all the existing images in the media store and the review
\* collection as it was.
C29_ReplaceDeletesAfterUpload ==
    Replacing
    => /\ (\E id \in TargetImages : deletes[id] # "none")
            => \A i \in 1..reviewCall.files : uploads[i] = "ok"
       /\ (rv.pc = "failed" /\ rv.error = "UploadFailed")
            => /\ TargetImages \subseteq mediaStore
               /\ reviewModel = reviewAtCall

\* a 'replace' of a review that has images, failed on the upload of its new batch
C29_Witness ==
    /\ Replacing /\ TargetImages # {}
    /\ rv.pc = "failed" /\ rv.error = "UploadFailed"
    /\ \E i \in 1..reviewCall.files : uploads[i] = "ok"

\* how many of the most recent checks in a row found the database 'unhealthy'
RECURSIVE TrailingUnhealthy(_)
TrailingUnhealthy(h) ==
    IF h = <<>> \/ h[Len(h)] # "unhealthy" THEN 0
    ELSE 1 + TrailingUnhealthy(SubSeq(h, 1, Len(h) - 1))

\* C30: after any checks, the failure counter of a DatabaseHealthMonitor of either
\* class is the number of most recent checks in a row whose status was 'unhealthy';
\* when it is 3 or more the result returned and stored is 'unhealthy' and carries
\* the '3 consecutive failures' error; getLast() is the result of the check that
\* completed last.
C30_CounterIsUnhealthyRun ==
    hm.class # None
    => /\ hm.failure = TrailingUnhealthy(hm.history)
       /\ hm.last = hm.returned
       /\ (hm.failure >= 3 /\ hm.history # <<>>)
            => /\ hm.last.status = "unhealthy"
               /\ \E i \in 1..Len(hm.last.errors) :
                    hm.last.errors[i] = "3 consecutive failures"

====
